---- MODULE Spec2Model ----
(***************************************************************************)
(* Model of the repos Python wrapper (src/src/repos/__init__.py):          *)
(*   get_script_path  - the script locator                                 *)
(*   run_script       - the process delegate (locate, chmod, spawn, wait)  *)
(*   setup, run       - the argument builders                              *)
(*   main             - the CLI dispatch                                   *)
(*                                                                         *)
(* Python values are tagged records [k, v]: None, bool, str, list of str.  *)
(* An argv token is such a value, so that "every token is a string" is a   *)
(* statement the model can refute.                                         *)
(***************************************************************************)
EXTENDS Integers, Sequences, FiniteSets, TLC

VARIABLES
    entry,        \* which entry point this run exercises: "setup", "run", "main"
    call,         \* the Python call of setup/run: [pos, kw]
    argv,         \* sys.argv[1:] of main
    pc,           \* position in the code
    script_name,  \* run_script's script_name parameter
    script_args,  \* run_script's args parameter (the argv tail)
    pkgLookup,    \* outcome of the packaged-resource lookup
    modIsFile,    \* outcome of the module-relative is_file() check
    script_path,  \* what get_script_path returned
    chmodResult,  \* outcome of os.chmod
    cmd,          \* the command handed to subprocess.run
    spawned,      \* number of child processes spawned
    child,        \* the child process: [state, code], code -1 until it exits
    exc,          \* the exception run_script raised, if any
    stdout,       \* what main printed to standard output
    stderr,       \* what main printed to standard error
    exitcode      \* the code main passed to sys.exit, -1 before it exits

vars == <<entry, call, argv, pc, script_name, script_args, pkgLookup, modIsFile,
          script_path, chmodResult, cmd, spawned, child, exc, stdout, stderr,
          exitcode>>

(***************************************************************************)
(* Bounds of the model.                                                    *)
(***************************************************************************)
MaxList == 2   \* longest list given for a multi-value parameter
MaxRaw  == 2   \* most raw pass-through arguments in one call
MaxArgv == 2   \* most command-line arguments given to main

(***************************************************************************)
(* Python values.                                                          *)
(***************************************************************************)
None    == [k |-> "none", v |-> "None"]
Bool(b) == [k |-> "bool", v |-> b]
Str(s)  == [k |-> "str",  v |-> s]
List(l) == [k |-> "list", v |-> l]
\* a keyword argument the caller did not give
Absent  == [k |-> "absent", v |-> "absent"]

\* Python truth value testing, as used by `if public:` and `if args:`
Truthy(x) ==
    CASE x.k = "none" -> FALSE
      [] x.k = "bool" -> x.v
      [] x.k = "str"  -> x.v # ""
      [] x.k = "list" -> x.v # <<>>

\* sequences over S of length lo..hi
SeqsOf(S, lo, hi) == UNION {[1..n -> S] : n \in lo..hi}

(***************************************************************************)
(* Input domains.                                                          *)
(***************************************************************************)
\* elements of a list given for a multi-value parameter
ListElems == {"path1", "path2"}
\* the lists a caller may give: every sequence of elements up to MaxList
Lists == {List(l) : l \in SeqsOf(ListElems, 0, MaxList)}
\* raw pass-through tokens of the backward-compatible call style
RawTokens == {Str("--public"), Str("--codespaces")}
RawArgs == SeqsOf(RawTokens, 0, MaxRaw)
\* command-line words given to main
ArgvTokens == {Str("setup"), Str("run"), Str("-h"), Str("--help"), Str("foo"), Str("--public")}
\* exit codes a child may end with
ExitCodes == {0, 1, 7}

(***************************************************************************)
(* Signatures of setup and run, and Python's binding of a call to them:    *)
(* positional arguments fill the named parameters left to right, what is   *)
(* left over goes to *args; a keyword fills its parameter; a parameter not *)
(* given takes its default.                                                *)
(***************************************************************************)
SetupNames == <<"file", "public", "codespaces", "devcontainer", "permissions",
                "tool", "debug", "debug_file">>
SetupDefaults == [file |-> None, public |-> Bool(FALSE), codespaces |-> Bool(FALSE),
                  devcontainer |-> None, permissions |-> None, tool |-> None,
                  debug |-> Bool(FALSE), debug_file |-> None]

RunNames == <<"file", "script", "include", "exclude", "ensure_setup", "skip_deps",
              "dry_run", "verbose", "continue_on_error">>
RunDefaults == [file |-> None, script |-> None, include |-> None, exclude |-> None,
                ensure_setup |-> Bool(FALSE), skip_deps |-> Bool(FALSE),
                dry_run |-> Bool(FALSE), verbose |-> Bool(FALSE),
                continue_on_error |-> Bool(FALSE)]

IndexOf(names, n) == CHOOSE i \in 1..Len(names) : names[i] = n

Bind(names, defaults, c) ==
    [named |-> [n \in DOMAIN defaults |->
                   IF IndexOf(names, n) <= Len(c.pos) THEN c.pos[IndexOf(names, n)]
                   ELSE IF c.kw[n] # Absent THEN c.kw[n]
                   ELSE defaults[n]],
     args  |-> SubSeq(c.pos, Len(names) + 1, Len(c.pos))]

(***************************************************************************)
(* The argument builders.                                                  *)
(***************************************************************************)
\* ",".join(l)
RECURSIVE JoinComma(_)
JoinComma(l) ==
    IF l = <<>> THEN ""
    ELSE IF Len(l) = 1 THEN l[1]
    ELSE l[1] \o "," \o JoinComma(Tail(l))

\* if x is not None: script_args.extend([flag, x])
ExtendFlagValue(acc, flag, x) ==
    IF x # None THEN acc \o <<Str(flag), x>> ELSE acc

\* if x: script_args.append(flag)
AppendFlagAlways(acc, flag, x) == Append(acc, Str(flag))
AppendFlag(acc, flag, x) ==
    IF Truthy(x) THEN Append(acc, Str(flag)) ELSE acc

\* for dc in devcontainers: script_args.extend(["-d", dc])
RECURSIVE RepeatFlag(_, _, _)
RepeatFlag(acc, flag, l) ==
    IF l = <<>> THEN acc
    ELSE RepeatFlag(acc \o <<Str(flag), Str(Head(l))>>, flag, Tail(l))

\* the devcontainer block of setup
ExtendDevcontainerOnce(acc, devcontainer) ==
    IF devcontainer # None
    THEN LET devcontainers == IF devcontainer.k = "str" THEN <<devcontainer.v>>
                              ELSE devcontainer.v
         IN  IF devcontainers = <<>> THEN acc
             ELSE acc \o <<Str("-d"), Str(JoinComma(devcontainers))>>
    ELSE acc
ExtendDevcontainer(acc, devcontainer) ==
    IF devcontainer # None
    THEN LET devcontainers == IF devcontainer.k = "str" THEN <<devcontainer.v>>
                              ELSE devcontainer.v
         IN  RepeatFlag(acc, "-d", devcontainers)
    ELSE acc

\* the include and exclude blocks of run
ExtendJoined(acc, flag, x) ==
    IF x # None
    THEN LET x_str == IF x.k = "list" THEN Str(JoinComma(x.v)) ELSE x
         IN  acc \o <<Str(flag), x_str>>
    ELSE acc

\* the debug_file block of setup
ExtendDebugFile(acc, debug_file) ==
    IF debug_file # None
    THEN IF debug_file = Bool(TRUE)
         THEN Append(acc, Str("--debug-file"))
         ELSE acc \o <<Str("--debug-file"), debug_file>>
    ELSE acc

\* if args: script_args.extend(args)
ExtendRaw(acc, args) == IF args # <<>> THEN acc \o args ELSE acc

\* the tokens setup builds from its named parameters, in the order of its statements
SetupNamedSwapped(p) ==
    LET a1 == ExtendFlagValue(<<>>, "-f", p.file)
        a2 == AppendFlag(a1, "--codespaces", p.codespaces)
        a3 == AppendFlag(a2, "--public", p.public)
        a4 == ExtendDevcontainer(a3, p.devcontainer)
        a5 == ExtendFlagValue(a4, "--permissions", p.permissions)
        a6 == ExtendFlagValue(a5, "-t", p.tool)
        a7 == AppendFlag(a6, "--debug", p.debug)
    IN  ExtendDebugFile(a7, p.debug_file)
SetupNamed(p) ==
    LET a1 == ExtendFlagValue(<<>>, "-f", p.file)
        a2 == AppendFlag(a1, "--public", p.public)
        a3 == AppendFlag(a2, "--codespaces", p.codespaces)
        a4 == ExtendDevcontainer(a3, p.devcontainer)
        a5 == ExtendFlagValue(a4, "--permissions", p.permissions)
        a6 == ExtendFlagValue(a5, "-t", p.tool)
        a7 == AppendFlag(a6, "--debug", p.debug)
    IN  ExtendDebugFile(a7, p.debug_file)

\* the tokens run builds from its named parameters, in the order of its statements
RunNamed(p) ==
    LET a1 == ExtendFlagValue(<<>>, "-f", p.file)
        a2 == ExtendFlagValue(a1, "--script", p.script)
        a3 == ExtendJoined(a2, "-i", p.include)
        a4 == ExtendJoined(a3, "-e", p.exclude)
        a5 == AppendFlag(a4, "--ensure-setup", p.ensure_setup)
        a6 == AppendFlag(a5, "-d", p.skip_deps)
        a7 == AppendFlag(a6, "-n", p.dry_run)
        a8 == AppendFlag(a7, "-v", p.verbose)
    IN  AppendFlag(a8, "--continue-on-error", p.continue_on_error)

\* the argv tail setup hands to run_script
SetupArgs(c) ==
    LET b == Bind(SetupNames, SetupDefaults, c)
    IN  ExtendRaw(SetupNamed(b.named), b.args)

\* the argv tail run hands to run_script
RunArgs(c) ==
    LET b == Bind(RunNames, RunDefaults, c)
    IN  ExtendRaw(RunNamed(b.named), b.args)

(***************************************************************************)
(* The calls the model makes.  A keyword call gives each named parameter   *)
(* by keyword or leaves it out; a full positional call gives all named     *)
(* parameters positionally and then raw arguments; a raw positional call   *)
(* gives raw arguments only, as the docstrings' backward-compatible        *)
(* examples do.                                                            *)
(***************************************************************************)
SetupKeywords ==
    [file         : {Absent, Str("custom.list")},
     public       : {Absent, Bool(TRUE)},
     codespaces   : {Absent, Bool(TRUE)},
     devcontainer : {Absent, Str("path1")} \cup Lists,
     permissions  : {Absent, Str("all")},
     tool         : {Absent, Str("jq")},
     debug        : {Absent, Bool(TRUE)},
     debug_file   : {Absent, Bool(TRUE), Bool(FALSE), Str("debug.log")}]

SetupLeading ==
    {<<f, p, c, d, pm, t, dbg, df>> :
        f \in {None, Str("custom.list")}, p \in {Bool(FALSE), Bool(TRUE)},
        c \in {Bool(FALSE), Bool(TRUE)}, d \in {None, List(<<"path1", "path2">>)},
        pm \in {None, Str("all")}, t \in {None, Str("jq")},
        dbg \in {Bool(FALSE), Bool(TRUE)}, df \in {None, Str("debug.log")}}

RunKeywords ==
    [file              : {Absent, Str("custom.list")},
     script            : {Absent, Str("build.sh")},
     include           : {Absent, Str("path1")} \cup Lists,
     exclude           : {Absent, Str("path1")} \cup Lists,
     ensure_setup      : {Absent, Bool(TRUE)},
     skip_deps         : {Absent, Bool(TRUE)},
     dry_run           : {Absent, Bool(TRUE)},
     verbose           : {Absent, Bool(TRUE)},
     continue_on_error : {Absent, Bool(TRUE)}]

RunLeading ==
    {<<f, s, i, e, es, sd, dr, vb, ce>> :
        f \in {None, Str("custom.list")}, s \in {None, Str("build.sh")},
        i \in {None, List(<<"path1", "path2">>)}, e \in {None, Str("path1")},
        es \in {Bool(FALSE), Bool(TRUE)}, sd \in {Bool(FALSE), Bool(TRUE)},
        dr \in {Bool(FALSE), Bool(TRUE)}, vb \in {Bool(FALSE), Bool(TRUE)},
        ce \in {Bool(FALSE), Bool(TRUE)}}

NoKeywords(defaults) == [n \in DOMAIN defaults |-> Absent]

Calls(keywords, leading, defaults) ==
    {[style |-> "keyword", pos |-> <<>>, kw |-> k] : k \in keywords}
    \cup {[style |-> "full", pos |-> l \o raw, kw |-> NoKeywords(defaults)] :
             l \in leading, raw \in RawArgs \ {<<>>}}
    \cup {[style |-> "raw", pos |-> raw, kw |-> NoKeywords(defaults)] :
             raw \in RawArgs \ {<<>>}}

NoCall == [style |-> "none", pos |-> <<>>, kw |-> <<>>]

(***************************************************************************)
(* Exceptions and paths.                                                   *)
(***************************************************************************)
NoExc == [type |-> "none", returncode |-> 0, msg |-> ""]
FileNotFoundError(name) ==
    [type |-> "FileNotFoundError", returncode |-> 0,
     msg |-> "Cannot find " \o name \o ". Make sure the package is properly installed."]
CalledProcessError(code) ==
    [type |-> "CalledProcessError", returncode |-> code, msg |-> "non-zero exit status"]
OSError == [type |-> "OSError", returncode |-> 0, msg |-> "exec failed"]
TypeError ==
    [type |-> "TypeError", returncode |-> 0,
     msg |-> "expected str, bytes or os.PathLike object"]

\* files('repos').joinpath('scripts', script_name)
PackagedPath(name) == "<package>/scripts/" \o name
\* Path(__file__).parent / 'scripts' / script_name
ModulePath(name) == "<module_dir>/scripts/" \o name

USAGE == "Usage: repos <command> [options]"

SUBCOMMAND_SCRIPTS == [setup |-> "setup-repos.sh", run |-> "run-pipeline.sh"]

(***************************************************************************)
(* Initial states.                                                         *)
(***************************************************************************)
InitCommon ==
    /\ pc = "start"
    /\ script_name = ""
    /\ script_args = <<>>
    /\ pkgLookup = "untried"
    /\ modIsFile = "untried"
    /\ script_path = ""
    /\ chmodResult = "untried"
    /\ cmd = <<>>
    /\ spawned = 0
    /\ child = [state |-> "none", code |-> -1]
    /\ exc = NoExc
    /\ stdout = <<>>
    /\ stderr = <<>>
    /\ exitcode = -1

\* a caller about to call setup or run
InitApi ==
    /\ entry \in {"setup", "run"}
    /\ call \in IF entry = "setup"
                THEN Calls(SetupKeywords, SetupLeading, SetupDefaults)
                ELSE Calls(RunKeywords, RunLeading, RunDefaults)
    /\ argv = <<>>
    /\ InitCommon

\* the console script about to enter main
Init ==
    /\ entry = "main"
    /\ call = NoCall
    /\ argv \in SeqsOf(ArgvTokens, 0, MaxArgv)
    /\ InitCommon

(***************************************************************************)
(* setup and run: build the argv tail, then call run_script.               *)
(***************************************************************************)
Setup ==
    /\ pc = "start" /\ entry = "setup"
    /\ script_args' = SetupArgs(call)
    /\ script_name' = "setup-repos.sh"
    /\ pc' = "locate"
    /\ UNCHANGED <<entry, call, argv, pkgLookup, modIsFile, script_path, chmodResult,
                   cmd, spawned, child, exc, stdout, stderr, exitcode>>

Run ==
    /\ pc = "start" /\ entry = "run"
    /\ script_args' = RunArgs(call)
    /\ script_name' = "run-pipeline.sh"
    /\ pc' = "locate"
    /\ UNCHANGED <<entry, call, argv, pkgLookup, modIsFile, script_path, chmodResult,
                   cmd, spawned, child, exc, stdout, stderr, exitcode>>

(***************************************************************************)
(* get_script_path.                                                        *)
(***************************************************************************)
\* the packaged lookup returns its path: no exception, and is_file() is true
PackagedFoundUnlessRaises(r) == r # "raises"
PackagedFound(r) == r = "file"

\* the try block: the lookup finds a file, finds none, or raises one of
\* ImportError, FileNotFoundError, AttributeError (caught, then fall through)
LocatePackaged ==
    /\ pc = "locate"
    /\ \E r \in {"file", "notfile", "raises"} :
          /\ pkgLookup' = r
          /\ IF PackagedFound(r)
             THEN script_path' = PackagedPath(script_name) /\ pc' = "chmod"
             ELSE script_path' = script_path /\ pc' = "fallback"
    /\ UNCHANGED <<entry, call, argv, script_name, script_args, modIsFile, chmodResult,
                   cmd, spawned, child, exc, stdout, stderr, exitcode>>

\* the __file__-relative fallback, and the raise when it is no file either
LocateFallback ==
    /\ pc = "fallback"
    /\ \E f \in {"file", "notfile"} :
          /\ modIsFile' = f
          /\ IF f = "file"
             THEN script_path' = ModulePath(script_name) /\ pc' = "chmod" /\ exc' = exc
             ELSE script_path' = script_path /\ pc' = "raised"
                  /\ exc' = FileNotFoundError(script_name)
    /\ UNCHANGED <<entry, call, argv, script_name, script_args, pkgLookup, chmodResult,
                   cmd, spawned, child, stdout, stderr, exitcode>>

(***************************************************************************)
(* run_script after get_script_path returned.                              *)
(***************************************************************************)
\* os.chmod succeeds or fails; except (OSError, PermissionError): pass
Chmod ==
    /\ pc = "chmod"
    /\ \E ok \in BOOLEAN : chmodResult' = IF ok THEN "ok" ELSE "failed"
    /\ pc' = "spawn"
    /\ UNCHANGED <<entry, call, argv, script_name, script_args, pkgLookup, modIsFile,
                   script_path, cmd, spawned, child, exc, stdout, stderr, exitcode>>

\* cmd = [script_path]; if args: cmd.extend(args)
Command(path, args) == IF args # <<>> THEN <<Str(path)>> \o args ELSE <<Str(path)>>

\* subprocess.run can start a child only for a command of strings
Spawnable(c) == \A i \in 1..Len(c) : c[i].k = "str"

\* subprocess.run starts the child; for a command holding a token that is no
\* string it raises TypeError before any process is created
Spawn ==
    /\ pc = "spawn"
    /\ cmd' = Command(script_path, script_args)
    /\ IF Spawnable(cmd')
       THEN /\ spawned' = spawned + 1
            /\ child' = [state |-> "running", code |-> -1]
            /\ pc' = "wait"
            /\ exc' = exc
       ELSE /\ pc' = "raised"
            /\ exc' = TypeError
            /\ UNCHANGED <<spawned, child>>
    /\ UNCHANGED <<entry, call, argv, script_name, script_args, pkgLookup, modIsFile,
                   script_path, chmodResult, stdout, stderr, exitcode>>

\* subprocess.run waits for the child; check=True raises on a non-zero code;
\* a child that could not exec the script ends as an OSError in the parent
Wait ==
    /\ pc = "wait"
    /\ \/ \E code \in ExitCodes :
             /\ child' = [state |-> "finished", code |-> code]
             /\ IF code = 0
                THEN pc' = "returned" /\ exc' = exc
                ELSE pc' = "raised" /\ exc' = CalledProcessError(code)
       \/ /\ child' = [state |-> "execfailed", code |-> -1]
          /\ pc' = "raised"
          /\ exc' = OSError
    /\ UNCHANGED <<entry, call, argv, script_name, script_args, pkgLookup, modIsFile,
                   script_path, chmodResult, cmd, spawned, stdout, stderr, exitcode>>

(***************************************************************************)
(* main.                                                                   *)
(***************************************************************************)
\* sys.exit(0 if args else 1)
UsageExitCodeZero(args) == 0
UsageExitCode(args) == IF args # <<>> THEN 0 ELSE 1

\* remaining = args[1:]
RemainingWithSubcommand(args) == args
Remaining(args) == Tail(args)

\* the exit code main gives for what run_script did
MainExitCodeCollapsed(returned, e) == IF returned THEN 0 ELSE 1
MainExitCode(returned, e) ==
    IF returned THEN 0
    ELSE IF e.type = "CalledProcessError" THEN e.returncode
    ELSE 1

\* the part of main before run_script
Main ==
    /\ pc = "start" /\ entry = "main"
    /\ IF argv = <<>> \/ argv[1].v \in {"-h", "--help"}
       THEN /\ stdout' = Append(stdout, USAGE)
            /\ exitcode' = UsageExitCode(argv)
            /\ pc' = "exited"
            /\ UNCHANGED <<stderr, script_name, script_args>>
       ELSE IF argv[1].v \notin DOMAIN SUBCOMMAND_SCRIPTS
       THEN /\ stderr' = stderr \o <<"Error: unknown command '" \o argv[1].v \o "'", USAGE>>
            /\ exitcode' = 1
            /\ pc' = "exited"
            /\ UNCHANGED <<stdout, script_name, script_args>>
       ELSE /\ script_name' = SUBCOMMAND_SCRIPTS[argv[1].v]
            /\ script_args' = Remaining(argv)
            /\ pc' = "locate"
            /\ UNCHANGED <<stdout, stderr, exitcode>>
    /\ UNCHANGED <<entry, call, argv, pkgLookup, modIsFile, script_path, chmodResult,
                   cmd, spawned, child, exc>>

\* the part of main after run_script: sys.exit(0) and the except clauses
MainExit ==
    /\ entry = "main" /\ pc \in {"returned", "raised"}
    /\ exitcode' = MainExitCode(pc = "returned", exc)
    /\ stderr' = IF pc = "returned" \/ exc.type = "CalledProcessError" THEN stderr
                 ELSE IF exc.type = "FileNotFoundError"
                 THEN Append(stderr, "Error: " \o exc.msg)
                 ELSE Append(stderr, "Unexpected error: " \o exc.msg)
    /\ pc' = "exited"
    /\ UNCHANGED <<entry, call, argv, script_name, script_args, pkgLookup, modIsFile,
                   script_path, chmodResult, cmd, spawned, child, exc, stdout>>

(***************************************************************************)
(* Specifications: the console script, and a caller of setup and run.      *)
(***************************************************************************)
RunScript == LocatePackaged \/ LocateFallback \/ Chmod \/ Spawn \/ Wait

Next == Main \/ RunScript \/ MainExit

Spec == Init /\ [][Next]_vars

NextApi == Setup \/ Run \/ RunScript

SpecApi == InitApi /\ [][NextApi]_vars

(***************************************************************************)
(* Properties of the CLI dispatch, the process delegate and the locator,   *)
(* checked under Spec.                                                     *)
(***************************************************************************)
HelpFlags == {"-h", "--help"}
Recognized == argv # <<>> /\ argv[1].v \in {"setup", "run"}
Exited == pc = "exited"
\* get_script_path returned a path
Located == script_path # ""
\* get_script_path raised its not-found error
LocateFailed == exc.type = "FileNotFoundError"
\* nothing of run_script has happened
NothingDelegated ==
    /\ pkgLookup = "untried" /\ modIsFile = "untried" /\ script_path = ""
    /\ chmodResult = "untried" /\ spawned = 0 /\ child.state = "none" /\ cmd = <<>>

\* C1: for a recognized subcommand the exit code of main is decided by what the
\* delegate did: a child that exits 0 gives 0, a child that exits N # 0 gives
\* exactly N, a script that cannot be located gives 1, any other failure gives 1;
\* main has exited exactly when it has set its one exit code.
C1_ExitCodeFollowsDelegate ==
    /\ Exited <=> exitcode # -1
    /\ (Exited /\ Recognized) =>
          /\ child.state = "finished" => exitcode = child.code
          /\ LocateFailed => exitcode = 1 /\ child.state = "none"
          /\ child.state = "execfailed" => exitcode = 1
          /\ child.state \in {"finished", "execfailed"} \/ LocateFailed

C1_Witness == Exited /\ Recognized /\ child.state = "finished" /\ exitcode = 7

\* C3 as stated: no arguments exits 1 with the usage on standard error; a help
\* flag exits 0 with the usage on standard output; nothing is located or spawned.
C3_UsageAsStated ==
    Exited =>
       /\ argv = <<>> =>
             exitcode = 1 /\ stderr = <<USAGE>> /\ stdout = <<>> /\ NothingDelegated
       /\ (argv # <<>> /\ argv[1].v \in HelpFlags) =>
             exitcode = 0 /\ stdout = <<USAGE>> /\ stderr = <<>> /\ NothingDelegated

\* C3 amended: no arguments exits 1, a help flag as first argument exits 0, and
\* both print the usage to standard output and nothing to standard error;
\* nothing is located or spawned.
C3_UsageOnStdout ==
    Exited =>
       /\ argv = <<>> =>
             exitcode = 1 /\ stdout = <<USAGE>> /\ stderr = <<>> /\ NothingDelegated
       /\ (argv # <<>> /\ argv[1].v \in HelpFlags) =>
             exitcode = 0 /\ stdout = <<USAGE>> /\ stderr = <<>> /\ NothingDelegated

C3_Witness == Exited /\ argv = <<>> /\ exitcode = 1 /\ stdout = <<USAGE>>

\* C7: an unrecognized first argument exits 1 with an error naming it and the
\* usage on standard error, and nothing is located, chmod-ed or spawned; a script
\* is located only for setup (setup-repos.sh) or run (run-pipeline.sh), and the
\* command spawned is that script followed by the remaining arguments unchanged.
C7_UnknownSubcommand ==
    /\ (Exited /\ argv # <<>> /\ argv[1].v \notin {"setup", "run"} \cup HelpFlags) =>
          /\ exitcode = 1
          /\ stderr = <<"Error: unknown command '" \o argv[1].v \o "'", USAGE>>
          /\ stdout = <<>>
          /\ NothingDelegated
    /\ ~NothingDelegated =>
          /\ Recognized
          /\ argv[1].v = "setup" => script_name = "setup-repos.sh"
          /\ argv[1].v = "run" => script_name = "run-pipeline.sh"
          /\ script_args = SubSeq(argv, 2, Len(argv))
          /\ spawned > 0 =>
                cmd = <<Str(script_path)>> \o SubSeq(argv, 2, Len(argv))

C7_Witness ==
    /\ Exited /\ argv # <<>> /\ argv[1].v = "foo" /\ Len(argv) = 2
    /\ exitcode = 1 /\ spawned = 0

\* C9 as stated: run_script goes locate, chmod attempt, spawn, wait, return or raise: a
\* failed locate is followed by no chmod and no spawn; once located, chmod is
\* attempted before the spawn, exactly one child is spawned whether chmod
\* succeeded or failed, a chmod failure never reaches the caller, and run_script
\* has not returned or raised while the child is still running.
C9_DelegateOrder ==
    /\ LocateFailed => chmodResult = "untried" /\ spawned = 0
    /\ chmodResult # "untried" => Located
    /\ spawned > 0 => chmodResult # "untried"
    /\ spawned <= 1
    /\ spawned = 0 <=> child.state = "none"
    /\ exc.type \in {"none", "FileNotFoundError", "CalledProcessError", "OSError"}
    /\ (Located /\ pc \in {"returned", "raised", "exited"}) =>
          spawned = 1 /\ child.state \in {"finished", "execfailed"}
    /\ child.state = "running" => pc = "wait"

\* C10: the locator tries the packaged lookup first; it returns the packaged
\* path exactly when that lookup found a regular file; otherwise (not a file, or
\* the lookup raised) it returns the module-relative path when that is a regular
\* file; it raises the not-found error, carrying the script name, exactly when
\* neither is a regular file; a path it returns is a regular file.
C10_LocatorOrder ==
    /\ modIsFile # "untried" => pkgLookup \in {"notfile", "raises"}
    /\ (pkgLookup = "file") <=> (script_path = PackagedPath(script_name))
    /\ (pkgLookup \in {"notfile", "raises"} /\ modIsFile = "file")
          <=> (script_path = ModulePath(script_name))
    /\ (pkgLookup \in {"notfile", "raises"} /\ modIsFile = "notfile") <=> LocateFailed
    /\ LocateFailed =>
          /\ script_path = ""
          /\ exc.msg = "Cannot find " \o script_name
                          \o ". Make sure the package is properly installed."
    /\ Located => script_path \in {PackagedPath(script_name), ModulePath(script_name)}
    /\ pc \in {"chmod", "spawn", "wait", "returned"} => Located

C10_Witness ==
    /\ pkgLookup = "raises" /\ modIsFile = "file"
    /\ script_path = ModulePath(script_name) /\ pc = "chmod"

(***************************************************************************)
(* Properties of the argument builders, checked under SpecApi.             *)
(***************************************************************************)
\* setup or run has built its argv tail and is calling run_script with it
\* (no step of run_script changes script_args afterwards)
ApiBuilt == entry \in {"setup", "run"} /\ pc = "locate"
\* the parameters of the call as Python binds them
Bound == IF entry = "setup" THEN Bind(SetupNames, SetupDefaults, call)
         ELSE Bind(RunNames, RunDefaults, call)
Defaults == IF entry = "setup" THEN SetupDefaults ELSE RunDefaults
\* the call gives every named parameter a value of its declared type
WellTyped == call.style \in {"keyword", "full"}
\* the raw pass-through arguments the caller gave positionally
RawGiven ==
    IF call.style = "raw" THEN call.pos
    ELSE SubSeq(call.pos, Len(call.pos) - Len(Bound.args) + 1, Len(call.pos))
\* the tail without the raw arguments at its end
NamedPart == SubSeq(script_args, 1, Len(script_args) - Len(Bound.args))

Count(t, tok) == Cardinality({i \in 1..Len(t) : t[i] = tok})
Range(l) == {l[i] : i \in DOMAIN l}
\* the elements of l separated by commas, folded from the left
RECURSIVE JoinedWithCommas(_)
JoinedWithCommas(l) ==
    IF l = <<>> THEN ""
    ELSE IF Len(l) = 1 THEN l[1]
    ELSE JoinedWithCommas(SubSeq(l, 1, Len(l) - 1)) \o "," \o l[Len(l)]

SetupOrder == <<"-f", "--public", "--codespaces", "-d", "--permissions", "-t",
                "--debug", "--debug-file">>
RunOrder == <<"-f", "--script", "-i", "-e", "--ensure-setup", "-d", "-n", "-v",
              "--continue-on-error">>
Order == IF entry = "setup" THEN SetupOrder ELSE RunOrder
Rank(tok) == CHOOSE i \in 1..Len(Order) : Order[i] = tok.v
IsFlag(tok) == tok.k = "str" /\ tok.v \in Range(Order)
BoolFlags ==
    IF entry = "setup"
    THEN {<<"public", "--public">>, <<"codespaces", "--codespaces">>, <<"debug", "--debug">>}
    ELSE {<<"ensure_setup", "--ensure-setup">>, <<"skip_deps", "-d">>, <<"dry_run", "-n">>,
          <<"verbose", "-v">>, <<"continue_on_error", "--continue-on-error">>}

\* C2 as stated: raw arguments given positionally all reach the end of the tail,
\* unchanged and in order, after the tokens of the named options, and none of
\* them is taken as the value of a named parameter.
C2_RawArgsPassThrough ==
    (ApiBuilt /\ call.style \in {"raw", "full"}) =>
       /\ Len(script_args) >= Len(RawGiven)
       /\ SubSeq(script_args, Len(script_args) - Len(RawGiven) + 1, Len(script_args))
             = RawGiven
       /\ call.style = "raw" => Bound.named = Defaults /\ script_args = RawGiven

\* C4: a devcontainer list of N elements gives exactly N tokens -d, each followed
\* by its element, in input order; an include or exclude list gives exactly one
\* -i (-e) followed by the elements joined with commas; a bare string gives the
\* flag once, followed by that string.
C4_MultiValue ==
    ApiBuilt =>
       LET p == Bound.named
           t == script_args
           OnceWith(flag, val) ==
               /\ Count(t, Str(flag)) = 1
               /\ \E i \in 1..(Len(t) - 1) : t[i] = Str(flag) /\ t[i + 1] = val
       IN  /\ (entry = "setup" /\ p.devcontainer.k = "list") =>
                 LET l == p.devcontainer.v
                 IN  /\ Count(t, Str("-d")) = Len(l)
                     /\ \E start \in 0..Len(t) :
                           /\ start + 2 * Len(l) <= Len(t)
                           /\ \A k \in 1..Len(l) :
                                 /\ t[start + 2 * k - 1] = Str("-d")
                                 /\ t[start + 2 * k] = Str(l[k])
           /\ (entry = "setup" /\ p.devcontainer.k = "str") =>
                 OnceWith("-d", p.devcontainer)
           /\ entry = "run" =>
                 \A m \in {<<"include", "-i">>, <<"exclude", "-e">>} :
                    /\ p[m[1]].k = "list" =>
                          OnceWith(m[2], Str(JoinedWithCommas(p[m[1]].v)))
                    /\ p[m[1]].k = "str" => OnceWith(m[2], p[m[1]])

C4_Witness ==
    /\ ApiBuilt /\ entry = "setup"
    /\ Bound.named.devcontainer = List(<<"path1", "path2">>)
    /\ script_args = <<Str("-d"), Str("path1"), Str("-d"), Str("path2")>>

\* C5: a boolean parameter left false contributes no token to the named part of
\* the tail, so a call that gives nothing builds the empty tail; set true, its
\* flag is there exactly once and what follows it is the next flag, not a value.
C5_BooleanFlags ==
    (ApiBuilt /\ WellTyped) =>
       LET p == Bound.named
           n == NamedPart
       IN  /\ \A b \in BoolFlags :
                 /\ p[b[1]] = Bool(FALSE) => Count(n, Str(b[2])) = 0
                 /\ p[b[1]] = Bool(TRUE) =>
                       /\ Count(n, Str(b[2])) = 1
                       /\ \A i \in 1..(Len(n) - 1) :
                             n[i] = Str(b[2]) => IsFlag(n[i + 1])
           /\ (p = Defaults /\ Bound.args = <<>>) => script_args = <<>>

C5_Witness ==
    /\ ApiBuilt /\ entry = "run" /\ call.style = "keyword"
    /\ script_args = <<Str("--ensure-setup"), Str("-d"), Str("-n"), Str("-v"),
                       Str("--continue-on-error")>>

\* C6: the tail is the named-option tokens followed by the raw arguments; the
\* flags among the named-option tokens stand in the one fixed order of the
\* builder (only setup's -d may repeat), every token that is not a flag is the
\* value of the value-taking flag right before it, and
\* setup(public=True, codespaces=True) builds exactly --public --codespaces.
C6_FixedOrder ==
    (ApiBuilt /\ WellTyped) =>
       LET p == Bound.named
           n == NamedPart
           Values(flag) ==
               IF entry = "setup"
               THEN CASE flag = "-f" -> {p.file}
                      [] flag = "-d" -> IF p.devcontainer.k = "list"
                                        THEN {Str(e) : e \in Range(p.devcontainer.v)}
                                        ELSE {p.devcontainer}
                      [] flag = "--permissions" -> {p.permissions}
                      [] flag = "-t" -> {p.tool}
                      [] flag = "--debug-file" -> {p.debug_file} \ {Bool(TRUE)}
                      [] OTHER -> {}
               ELSE CASE flag = "-f" -> {p.file}
                      [] flag = "--script" -> {p.script}
                      [] flag \in {"-i", "-e"} ->
                            LET x == IF flag = "-i" THEN p.include ELSE p.exclude
                            IN  IF x.k = "list" THEN {Str(JoinedWithCommas(x.v))} ELSE {x}
                      [] OTHER -> {}
       IN  /\ script_args = n \o Bound.args
           /\ \A i, j \in 1..Len(n) :
                 (i < j /\ IsFlag(n[i]) /\ IsFlag(n[j])) =>
                    /\ Rank(n[i]) <= Rank(n[j])
                    /\ Rank(n[i]) = Rank(n[j]) => entry = "setup" /\ n[i] = Str("-d")
           /\ \A i \in 1..Len(n) :
                 IF IsFlag(n[i])
                 THEN Values(n[i].v) # {} =>
                         i < Len(n) /\ ~IsFlag(n[i + 1]) /\ n[i + 1] \in Values(n[i].v)
                 ELSE i > 1 /\ IsFlag(n[i - 1]) /\ n[i] \in Values(n[i - 1].v)
           /\ (entry = "setup" /\ call.style = "keyword"
                 /\ p = [SetupDefaults EXCEPT !.public = Bool(TRUE),
                                              !.codespaces = Bool(TRUE)]) =>
                 script_args = <<Str("--public"), Str("--codespaces")>>

C6_Witness ==
    /\ ApiBuilt /\ entry = "setup" /\ call.style = "keyword"
    /\ Bound.named = [SetupDefaults EXCEPT !.public = Bool(TRUE),
                                           !.codespaces = Bool(TRUE)]
    /\ script_args = <<Str("--public"), Str("--codespaces")>>

\* C8 as stated: whatever values of the declared types the parameters take,
\* every token of the tail is a string.
C8_TokensAreStrings ==
    (ApiBuilt /\ WellTyped) => \A i \in 1..Len(script_args) : script_args[i].k = "str"

====
